---- MODULE Spec2Model ----
(***************************************************************************)
(* ExtensionsAutoProfiler (extensionsAutoProfiler.ts): the per-target      *)
(* profiling-session lifecycle driven by responsiveness events, and the    *)
(* reduction of a CPU profile into merged slices and a top slice.          *)
(*                                                                         *)
(* JavaScript runs every handler and every promise continuation to         *)
(* completion: a step of the model is one macrotask (an event delivery, a  *)
(* timer callback, the settling of a collaborator's promise) together with *)
(* the continuations it makes runnable.                                    *)
(***************************************************************************)
EXTENDS Integers, Sequences, FiniteSets, TLC

\* ------------------------------------------------------------------ bounds
\* Episodes (handler runs that took the start branch) the model follows.
MaxEpisodes == 2
\* Samples of a profile.
MaxSamples == 3

Targets == {"t1", "t2"}
Episodes == 1..MaxEpisodes

VARIABLES
    session,      \* _session: Map<ICpuProfilerTarget, CancellationTokenSource>, as pairs <<target, token>>
    nextEp,       \* the next CancellationTokenSource / handler run to be created
    epTarget,     \* episode -> the target of its handler run
    pc,           \* episode -> where its async handler stands: "none", "starting", "waiting",
                  \*            "stopping", or how it ended: "startFailed", "stopFailed", "processed"
    cancelled,    \* episode -> its CancellationTokenSource was cancelled
    shortcut,     \* episode -> the setTimeout(resolve, 0) of an already-cancelled token is pending
    timer,        \* episode -> its setTimeout(resolve, 5e3)
    resolvedBy,   \* episode -> what resolved its wait
    startCalls,   \* target -> calls of startExtensionHostProfile
    stopCalls,    \* episode -> calls of session.stop()
    errorReports, \* episode -> calls of onUnexpectedError
    summary,      \* episode -> what _processCpuProfile computed from its profile
    report,       \* episode -> where the reporting continuation of _processCpuProfile stands
    prompted,     \* episode -> calls of _notificationService.prompt
    emitted,      \* episode -> the 'exthostunresponsive' events sent, as their prompt fields
    logged,       \* episode -> calls of _logService.warn
    lastOp,       \* the macrotask that ran last and the collaborators it called
    profile,      \* the profile under aggregation (aggregation specification)
    result        \* what _processCpuProfile computed from profile (aggregation specification)

vars == <<session, nextEp, epTarget, pc, cancelled, shortcut, timer, resolvedBy,
          startCalls, stopCalls, errorReports, summary, report, prompted, emitted,
          logged, lastOp, profile, result>>

lifecycleVars == <<session, nextEp, epTarget, pc, cancelled, shortcut, timer, resolvedBy,
                   startCalls, stopCalls, errorReports, summary, report, prompted,
                   emitted, logged>>

\* ------------------------------------------------------- the _session map
has(t) == \E p \in session : p[1] = t

\* Faulty variant: the lookup does not go by the target.
GetAnyEntry(t) == (CHOOSE p \in session : TRUE)[2]

get(t) == (CHOOSE p \in session : p[1] = t)[2]

MapSet(m, t, token) == {p \in m : p[1] # t} \cup {<<t, token>>}

MapDelete(m, t) == {p \in m : p[1] # t}

\* --------------------------------------------------- profiles (inputs)
\* Contributor identifiers. The two spellings of "ext.<e-acute>" are different
\* strings (=== distinguishes them) that are canonically equivalent in Unicode.
IdA == "ext.a"
IdNFC == "ext.<U+00E9>"
IdNFD == "ext.e<U+0301>"
Ids == {IdA, IdNFC, IdNFD}

Deltas == {0, 2500000, 5000000}
StartTimes == {5000000}
EndTimes == {0, 5000000, 7500000, 10000000, 13000000}

SeqsUpTo(S, n) == UNION {[1..k -> S] : k \in 0..n}

Profiles ==
    {[ids |-> [i \in DOMAIN s |-> s[i][1]], deltas |-> [i \in DOMAIN s |-> s[i][2]],
      startTime |-> b, endTime |-> e] :
        s \in SeqsUpTo(Ids \X Deltas, MaxSamples), b \in StartTimes, e \in EndTimes}

\* The two scenarios of whole-second profiles: totals 5,500,000 and 500,000
\* of a duration of 6,000,000, and 9,900,000 of 10,000,000.
ScenarioProfiles ==
    {[ids |-> <<IdA, IdNFC, IdA>>, deltas |-> <<2000000, 500000, 3500000>>,
      startTime |-> 0, endTime |-> 6000000],
     [ids |-> <<IdA>>, deltas |-> <<9900000>>, startTime |-> 0, endTime |-> 10000000]}

\* A profile whose duration is no multiple of 100 and whose totals are 62.5%
\* and 37.5% of it.
RoundingProfiles ==
    {[ids |-> <<IdA, IdNFC>>, deltas |-> <<3125010, 1875006>>,
      startTime |-> 0, endTime |-> 5000016]}

\* ------------------------------------------------ JavaScript numbers
\* The values Math.round(total / percentage) can take: a whole number, an
\* infinity (v is its sign) or NaN.
Num(n) == [kind |-> "num", v |-> n]
PosInf == [kind |-> "inf", v |-> 1]
NegInf == [kind |-> "inf", v |-> -1]
NaN == [kind |-> "nan", v |-> 0]

\* a < b on those values: false whenever one side is NaN.
Lt(a, b) ==
    /\ a.kind # "nan"
    /\ b.kind # "nan"
    /\ IF a.kind = "inf" THEN a.v = -1 /\ b # NegInf
       ELSE IF b.kind = "inf" THEN b.v = 1
       ELSE a.v < b.v

\* a >= n for a whole number n.
GeNum(a, n) == a = PosInf \/ (a.kind = "num" /\ a.v >= n)

\* floor(n / d + 1/2) for d > 0.
RoundQuotient(n, d) ==
    LET q == n \div d
    IN  IF 2 * (n - q * d) >= d THEN q + 1 ELSE q

\* The pairs <<total, duration>> of the profiles above for which the two
\* divisions of total / (duration / 100), each rounded to a double, give the
\* double just below k + 1/2 although 100 * total / duration is k + 1/2:
\* 3125010 / (5000016 / 100) is 62.49999999999999 in doubles. For every other
\* pair of these profiles the double quotient rounds as the exact one does
\* (the durations that are multiples of 100 divide exactly).
BelowHalfInDoubles == {<<3125010, 5000016>>}

\* Math.round(total / (duration / 100)): Math.round is floor(x + 1/2) of the
\* double quotient.
Percentage(total, duration) ==
    IF duration = 0
    THEN (IF total > 0 THEN PosInf ELSE IF total < 0 THEN NegInf ELSE NaN)
    ELSE IF <<total, duration>> \in BelowHalfInDoubles
    THEN Num((100 * total) \div duration)
    ELSE IF duration > 0
    THEN Num(RoundQuotient(100 * total, duration))
    ELSE Num(RoundQuotient(-(100 * total), -duration))

\* ----------------------------------------------- _processCpuProfile
\* The collation key String.prototype.localeCompare orders by: it returns 0
\* for canonically equivalent strings (ECMA-262, String.prototype.localeCompare).
CollationKey(id) == IF id = IdA THEN 1 ELSE 2

localeCompare(a, b) ==
    IF CollationKey(a) < CollationKey(b) THEN -1
    ELSE IF CollationKey(a) > CollationKey(b) THEN 1
    ELSE 0

Candidates(p) == [i \in 1..Len(p.ids) |-> [id |-> p.ids[i], total |-> p.deltas[i], percentage |-> Num(0)]]

RECURSIVE InsertSorted(_, _)
InsertSorted(sorted, x) ==
    IF sorted = << >> THEN <<x>>
    ELSE IF localeCompare(sorted[Len(sorted)].id, x.id) <= 0 THEN Append(sorted, x)
    ELSE Append(InsertSorted(SubSeq(sorted, 1, Len(sorted) - 1), x), sorted[Len(sorted)])

\* data.sort((a, b) => a.id.localeCompare(b.id)): elements comparing 0 keep their order.
RECURSIVE SortById(_)
SortById(data) ==
    IF data = << >> THEN << >>
    ELSE InsertSorted(SortById(SubSeq(data, 1, Len(data) - 1)), data[Len(data)])

RECURSIVE MergeLoop(_, _, _)
MergeLoop(data, anchor, i) ==
    IF i > Len(data) THEN SubSeq(data, 1, anchor)
    ELSE IF data[anchor].id = data[i].id
    THEN MergeLoop([data EXCEPT ![anchor].total = @ + data[i].total], anchor, i + 1)
    ELSE MergeLoop([data EXCEPT ![anchor + 1] = data[i]], anchor + 1, i + 1)

MergeById(data) == IF data = << >> THEN << >> ELSE MergeLoop(data, 1, 2)

\* Faulty variant: a slice of equal percentage replaces the top too.
ReplacesTopOnEqual(topPercentage, slicePercentage) ==
    topPercentage.kind # "nan" /\ slicePercentage.kind # "nan" /\ ~Lt(slicePercentage, topPercentage)

\* The test that makes a slice the new top.
ReplacesTop(topPercentage, slicePercentage) == Lt(topPercentage, slicePercentage)

\* top is the index of the top slice in data, 0 while undefined.
RECURSIVE TopLoop(_, _, _, _)
TopLoop(data, duration, k, top) ==
    IF k > Len(data) THEN [data |-> data, top |-> top]
    ELSE LET d == [data EXCEPT ![k].percentage = Percentage(data[k].total, duration)]
         IN  TopLoop(d, duration, k + 1,
                     IF top = 0 \/ ReplacesTop(d[top].percentage, d[k].percentage) THEN k ELSE top)

\* The synchronous part of _processCpuProfile: the merged slices, the top and the duration.
processCpuProfile(p) ==
    LET duration == p.endTime - p.startTime
        r == TopLoop(MergeById(SortById(Candidates(p))), duration, 1, 0)
    IN  [data |-> r.data, top |-> r.top, duration |-> duration]

\* Faulty variant: a profile without a top slice is reported like any other.
NoTopNever(r) == FALSE

\* if (!top) { return; }
NoTop(r) == r.top = 0

PromptPercentage == 99
PromptTotal == 5000000

\* Faulty variant: the prompt asks for more than 99 percent.
PromptAbove(r) == GeNum(r.data[r.top].percentage, PromptPercentage + 1) /\ r.data[r.top].total >= PromptTotal

\* const prompt = top.percentage >= 99 && top.total >= 5e6
Prompt(r) == GeNum(r.data[r.top].percentage, PromptPercentage) /\ r.data[r.top].total >= PromptTotal

NoResult == [data |-> << >>, top |-> -1, duration |-> 0]

\* What session.stop() hands back in the lifecycle specification: a profile
\* without samples and one whose samples give a top slice.
SessionProfiles ==
    {[ids |-> << >>, deltas |-> << >>, startTime |-> 5000000, endTime |-> 10000000],
     [ids |-> <<IdNFC, IdA>>, deltas |-> <<5000000, 2500000>>, startTime |-> 5000000, endTime |-> 13000000]}

\* ------------------------------------------------------------- Init
NoOp == [op |-> "init", target |-> "t1", ep |-> 0, resp |-> FALSE, can |-> FALSE, calls |-> {}]

Op(op, t, e, calls) == [op |-> op, target |-> t, ep |-> e, resp |-> FALSE, can |-> FALSE, calls |-> calls]

LifecycleInit ==
    /\ session = {}
    /\ nextEp = 1
    /\ epTarget = [e \in Episodes |-> "t1"]
    /\ pc = [e \in Episodes |-> "none"]
    /\ cancelled = [e \in Episodes |-> FALSE]
    /\ shortcut = [e \in Episodes |-> FALSE]
    /\ timer = [e \in Episodes |-> "unset"]
    /\ resolvedBy = [e \in Episodes |-> "none"]
    /\ startCalls = [t \in Targets |-> 0]
    /\ stopCalls = [e \in Episodes |-> 0]
    /\ errorReports = [e \in Episodes |-> 0]
    /\ summary = [e \in Episodes |-> NoResult]
    /\ report = [e \in Episodes |-> "none"]
    /\ prompted = [e \in Episodes |-> 0]
    /\ emitted = [e \in Episodes |-> << >>]
    /\ logged = [e \in Episodes |-> 0]
    /\ lastOp = NoOp

Init ==
    /\ LifecycleInit
    /\ profile = [ids |-> << >>, deltas |-> << >>, startTime |-> 0, endTime |-> 0]
    /\ result = NoResult

aggVars == <<profile, result>>

\* ------------------------------------- _onDidChangeResponsiveChange
\* Faulty variant: the capability of the target is not consulted.
IgnoredNever(can) == FALSE

\* if (!target.canProfileExtensionHost()) return;
Ignored(can) == ~can

\* event.isResponsive && this._session.has(target)
CancelBranch(t, isResponsive) == isResponsive /\ has(t)

\* Faulty variant: the start branch does not look for an entry of the target.
StartBranchIgnoringEntry(t, isResponsive) == ~isResponsive

\* !event.isResponsive && !this._session.has(target)
StartBranch(t, isResponsive) == ~isResponsive /\ ~has(t)

\* Faulty variant: resolve is not registered with the token.
CancelNeverResolves(e) == FALSE

\* token.token.onCancellationRequested(resolve): cancel() calls resolve when the
\* handler is in its wait and the token was not cancelled before.
CancelResolvesWait(e) == pc[e] = "waiting" /\ ~cancelled[e]

\* The handler's run after the wait's promise resolved, up to await session.stop().
\* The values of pc, resolvedBy and stopCalls after it.
ResumeAfterWait(e, by) ==
    [pc |-> [pc EXCEPT ![e] = "stopping"],
     resolvedBy |-> [resolvedBy EXCEPT ![e] = by],
     stopCalls |-> [stopCalls EXCEPT ![e] = @ + 1]]

NoResume == [pc |-> pc, resolvedBy |-> resolvedBy, stopCalls |-> stopCalls]

\* Faulty variant: the cancel branch removes the entry it cancelled.
CancelSessionDeletesEntry(t, isResponsive, can) ==
    LET e == get(t)
        r == IF CancelResolvesWait(e) THEN ResumeAfterWait(e, "cancel") ELSE NoResume
    IN  /\ cancelled' = [cancelled EXCEPT ![e] = TRUE]
        /\ session' = MapDelete(session, t)
        /\ pc' = r.pc
        /\ resolvedBy' = r.resolvedBy
        /\ stopCalls' = r.stopCalls
        /\ lastOp' = [op |-> "event", target |-> t, ep |-> e, resp |-> isResponsive, can |-> can,
                      calls |-> {"cancel"} \cup (IF CancelResolvesWait(e) THEN {"stop"} ELSE {})]
        /\ UNCHANGED <<nextEp, epTarget, shortcut, timer, startCalls, errorReports,
                       summary, report, prompted, emitted, logged>>

\* this._session.get(target).cancel()
CancelSession(t, isResponsive, can) ==
    LET e == get(t)
        r == IF CancelResolvesWait(e) THEN ResumeAfterWait(e, "cancel") ELSE NoResume
    IN  /\ cancelled' = [cancelled EXCEPT ![e] = TRUE]
        /\ pc' = r.pc
        /\ resolvedBy' = r.resolvedBy
        /\ stopCalls' = r.stopCalls
        /\ lastOp' = [op |-> "event", target |-> t, ep |-> e, resp |-> isResponsive, can |-> can,
                      calls |-> {"cancel"} \cup (IF CancelResolvesWait(e) THEN {"stop"} ELSE {})]
        /\ UNCHANGED <<session, nextEp, epTarget, shortcut, timer, startCalls, errorReports,
                       summary, report, prompted, emitted, logged>>

\* const token = new CancellationTokenSource(); this._session.set(target, token);
\* session = await target.startExtensionHostProfile()
StartSession(t, isResponsive, can) ==
    /\ nextEp <= MaxEpisodes
    /\ session' = MapSet(session, t, nextEp)
    /\ nextEp' = nextEp + 1
    /\ epTarget' = [epTarget EXCEPT ![nextEp] = t]
    /\ pc' = [pc EXCEPT ![nextEp] = "starting"]
    /\ startCalls' = [startCalls EXCEPT ![t] = @ + 1]
    /\ lastOp' = [op |-> "event", target |-> t, ep |-> nextEp, resp |-> isResponsive, can |-> can,
                  calls |-> {"start"}]
    /\ UNCHANGED <<cancelled, shortcut, timer, resolvedBy, stopCalls, errorReports,
                   summary, report, prompted, emitted, logged>>

IgnoreEvent(t, isResponsive, can) ==
    /\ lastOp' = [op |-> "event", target |-> t, ep |-> 0, resp |-> isResponsive, can |-> can,
                  calls |-> {}]
    /\ UNCHANGED lifecycleVars

onDidChangeResponsiveChange(t, isResponsive, can) ==
    IF Ignored(can) THEN IgnoreEvent(t, isResponsive, can)
    ELSE IF CancelBranch(t, isResponsive) THEN CancelSession(t, isResponsive, can)
    ELSE IF StartBranch(t, isResponsive) THEN StartSession(t, isResponsive, can)
    ELSE IgnoreEvent(t, isResponsive, can)

\* CancellationTokenSource: the token of a source cancelled before its token was
\* first read is already cancelled when the handler starts to listen.
CancelledBeforeListening(e) == cancelled[e]

\* Faulty variant: the handler listens only for cancellations still to come.
StartResolvedDropsCancel(e) ==
    /\ pc[e] = "starting"
    /\ pc' = [pc EXCEPT ![e] = "waiting"]
    /\ timer' = [timer EXCEPT ![e] = "armed"]
    /\ lastOp' = Op("startResolved", epTarget[e], e, {"setTimeout"})
    /\ UNCHANGED <<session, nextEp, epTarget, cancelled, shortcut, resolvedBy, startCalls,
                   stopCalls, errorReports, summary, report, prompted, emitted, logged>>

\* await target.startExtensionHostProfile() resolved: the handler enters its wait.
\* token.token of a source cancelled before this is CancellationToken.Cancelled,
\* whose onCancellationRequested calls back from a setTimeout(..., 0).
StartResolved(e) ==
    /\ pc[e] = "starting"
    /\ pc' = [pc EXCEPT ![e] = "waiting"]
    /\ shortcut' = [shortcut EXCEPT ![e] = CancelledBeforeListening(e)]
    /\ timer' = [timer EXCEPT ![e] = "armed"]
    /\ lastOp' = Op("startResolved", epTarget[e], e, {"setTimeout"})
    /\ UNCHANGED <<session, nextEp, epTarget, cancelled, resolvedBy, startCalls, stopCalls,
                   errorReports, summary, report, prompted, emitted, logged>>

\* Faulty variant: the catch block calls startExtensionHostProfile again.
StartRejectedRetries(e) ==
    /\ pc[e] = "starting"
    /\ startCalls[epTarget[e]] < MaxEpisodes
    /\ startCalls' = [startCalls EXCEPT ![epTarget[e]] = @ + 1]
    /\ lastOp' = Op("startRejected", epTarget[e], e, {"start"})
    /\ UNCHANGED <<session, nextEp, epTarget, pc, cancelled, shortcut, timer, resolvedBy,
                   stopCalls, errorReports, summary, report, prompted, emitted, logged>>

\* Faulty variant: the catch block reports the error.
StartRejectedReports(e) ==
    /\ pc[e] = "starting"
    /\ session' = MapDelete(session, epTarget[e])
    /\ pc' = [pc EXCEPT ![e] = "startFailed"]
    /\ errorReports' = [errorReports EXCEPT ![e] = @ + 1]
    /\ lastOp' = Op("startRejected", epTarget[e], e, {"onUnexpectedError"})
    /\ UNCHANGED <<nextEp, epTarget, cancelled, shortcut, timer, resolvedBy, startCalls,
                   stopCalls, summary, report, prompted, emitted, logged>>

\* await target.startExtensionHostProfile() rejected: the catch block.
StartRejected(e) ==
    /\ pc[e] = "starting"
    /\ session' = MapDelete(session, epTarget[e])
    /\ pc' = [pc EXCEPT ![e] = "startFailed"]
    /\ lastOp' = Op("startRejected", epTarget[e], e, {})
    /\ UNCHANGED <<nextEp, epTarget, cancelled, shortcut, timer, resolvedBy, startCalls,
                   stopCalls, errorReports, summary, report, prompted, emitted, logged>>

\* The setTimeout(resolve, 0) of an already-cancelled token calls resolve.
ShortcutFires(e) ==
    /\ shortcut[e]
    /\ shortcut' = [shortcut EXCEPT ![e] = FALSE]
    /\ LET r == IF pc[e] = "waiting" THEN ResumeAfterWait(e, "cancel") ELSE NoResume
       IN  /\ pc' = r.pc
           /\ resolvedBy' = r.resolvedBy
           /\ stopCalls' = r.stopCalls
    /\ lastOp' = Op("shortcut", epTarget[e], e, IF pc[e] = "waiting" THEN {"stop"} ELSE {})
    /\ UNCHANGED <<session, nextEp, epTarget, cancelled, timer, startCalls, errorReports,
                   summary, report, prompted, emitted, logged>>

\* Faulty variant: the timer's callback resumes the handler whether or not the wait was resolved.
TimerResolvesAgain(e) == pc[e] \in {"waiting", "stopping"}

\* resolve, called by the 5e3 timer, resolves the wait only if nothing resolved it before.
TimerResolvesWait(e) == pc[e] = "waiting"

\* Faulty variant: the timer's callback resolves the wait of whichever run
\* holds the entry of the target.
TimerFiresForTarget(e) ==
    /\ timer[e] = "armed"
    /\ ~shortcut[e]
    /\ timer' = [timer EXCEPT ![e] = "fired"]
    /\ LET cur == IF has(epTarget[e]) THEN get(epTarget[e]) ELSE e
           r == IF pc[cur] = "waiting" THEN ResumeAfterWait(cur, "timeout") ELSE NoResume
       IN  /\ pc' = r.pc
           /\ resolvedBy' = r.resolvedBy
           /\ stopCalls' = r.stopCalls
           /\ lastOp' = Op("timer", epTarget[e], e, IF pc[cur] = "waiting" THEN {"stop"} ELSE {})
    /\ UNCHANGED <<session, nextEp, epTarget, cancelled, shortcut, startCalls, errorReports,
                   summary, report, prompted, emitted, logged>>

\* setTimeout(resolve, 5e3) calls resolve. A timer of 0 set in the same run fires first.
TimerFires(e) ==
    /\ timer[e] = "armed"
    /\ ~shortcut[e]
    /\ timer' = [timer EXCEPT ![e] = "fired"]
    /\ LET r == IF TimerResolvesWait(e) THEN ResumeAfterWait(e, "timeout") ELSE NoResume
       IN  /\ pc' = r.pc
           /\ resolvedBy' = r.resolvedBy
           /\ stopCalls' = r.stopCalls
    /\ lastOp' = Op("timer", epTarget[e], e, IF TimerResolvesWait(e) THEN {"stop"} ELSE {})
    /\ UNCHANGED <<session, nextEp, epTarget, cancelled, shortcut, startCalls, errorReports,
                   summary, report, prompted, emitted, logged>>

\* Faulty variant: the finally block leaves the entry in the map.
FinallyKeepsEntry(e) == session

\* finally { this._session.delete(target); }
Finally(e) == MapDelete(session, epTarget[e])

\* await session.stop() resolved: _processCpuProfile(profile) up to
\* getExtension(top.id), then the finally block.
StopResolved(e, p) ==
    /\ pc[e] = "stopping"
    /\ LET r == processCpuProfile(p)
       IN  /\ summary' = [summary EXCEPT ![e] = r]
           /\ report' = [report EXCEPT ![e] = IF NoTop(r) THEN "nothing" ELSE "resolving"]
           /\ lastOp' = Op("stopResolved", epTarget[e], e,
                           {"processCpuProfile"} \cup (IF NoTop(r) THEN {} ELSE {"getExtension"}))
    /\ session' = Finally(e)
    /\ pc' = [pc EXCEPT ![e] = "processed"]
    /\ UNCHANGED <<nextEp, epTarget, cancelled, shortcut, timer, resolvedBy, startCalls,
                   stopCalls, errorReports, prompted, emitted, logged>>

\* Faulty variant: the catch block swallows the error.
CatchStopErrorSwallows(e) == errorReports

\* catch (err) { onUnexpectedError(err); }
CatchStopError(e) == [errorReports EXCEPT ![e] = @ + 1]

\* await session.stop() rejected: the catch block, then the finally block.
StopRejected(e) ==
    /\ pc[e] = "stopping"
    /\ errorReports' = CatchStopError(e)
    /\ session' = Finally(e)
    /\ pc' = [pc EXCEPT ![e] = "stopFailed"]
    /\ lastOp' = Op("stopRejected", epTarget[e], e, {"onUnexpectedError"})
    /\ UNCHANGED <<nextEp, epTarget, cancelled, shortcut, timer, resolvedBy, startCalls,
                   stopCalls, summary, report, prompted, emitted, logged>>

\* Faulty variant: the prompt is raised before the extension is looked at.
ExtensionResolvedPromptsFirst(e, found) ==
    /\ report[e] = "resolving"
    /\ report' = [report EXCEPT ![e] = IF found THEN "writing" ELSE "dropped"]
    /\ prompted' = [prompted EXCEPT ![e] = IF Prompt(summary[e]) THEN @ + 1 ELSE @]
    /\ lastOp' = Op("extensionResolved", epTarget[e], e,
                    (IF found THEN {"setUnresponsiveProfile", "writeFile"} ELSE {})
                    \cup (IF Prompt(summary[e]) THEN {"prompt"} ELSE {}))
    /\ UNCHANGED <<session, nextEp, epTarget, pc, cancelled, shortcut, timer, resolvedBy,
                   startCalls, stopCalls, errorReports, summary, emitted, logged>>

\* getExtension(top.id) resolved: nothing found, or the profile is shown, the
\* prompt raised when warranted, and writeFile called.
ExtensionResolved(e, found) ==
    /\ report[e] = "resolving"
    /\ report' = [report EXCEPT ![e] = IF found THEN "writing" ELSE "dropped"]
    /\ prompted' = [prompted EXCEPT ![e] = IF found /\ Prompt(summary[e]) THEN @ + 1 ELSE @]
    /\ lastOp' = Op("extensionResolved", epTarget[e], e,
                    IF ~found THEN {}
                    ELSE {"setUnresponsiveProfile", "writeFile"}
                         \cup (IF Prompt(summary[e]) THEN {"prompt"} ELSE {}))
    /\ UNCHANGED <<session, nextEp, epTarget, pc, cancelled, shortcut, timer, resolvedBy,
                   startCalls, stopCalls, errorReports, summary, emitted, logged>>

\* await writeFile(...) resolved: the warning is logged and the event sent.
WriteResolved(e) ==
    /\ report[e] = "writing"
    /\ report' = [report EXCEPT ![e] = "reported"]
    /\ logged' = [logged EXCEPT ![e] = @ + 1]
    /\ emitted' = [emitted EXCEPT ![e] = Append(@, Prompt(summary[e]))]
    /\ lastOp' = Op("writeResolved", epTarget[e], e, {"warn", "publicLog"})
    /\ UNCHANGED <<session, nextEp, epTarget, pc, cancelled, shortcut, timer, resolvedBy,
                   startCalls, stopCalls, errorReports, summary, prompted>>

\* await writeFile(...) rejected: the callback's promise rejects and nothing follows.
WriteRejected(e) ==
    /\ report[e] = "writing"
    /\ report' = [report EXCEPT ![e] = "writeFailed"]
    /\ lastOp' = Op("writeRejected", epTarget[e], e, {})
    /\ UNCHANGED <<session, nextEp, epTarget, pc, cancelled, shortcut, timer, resolvedBy,
                   startCalls, stopCalls, errorReports, summary, prompted, emitted, logged>>

\* The session lifecycle: events, timers and the settling of start and stop.
Next ==
    \/ \E t \in Targets, isResponsive \in BOOLEAN, can \in BOOLEAN :
           onDidChangeResponsiveChange(t, isResponsive, can) /\ UNCHANGED aggVars
    \/ \E e \in Episodes : StartResolved(e) /\ UNCHANGED aggVars
    \/ \E e \in Episodes : StartRejected(e) /\ UNCHANGED aggVars
    \/ \E e \in Episodes : ShortcutFires(e) /\ UNCHANGED aggVars
    \/ \E e \in Episodes : TimerFires(e) /\ UNCHANGED aggVars
    \/ \E e \in Episodes, p \in SessionProfiles : StopResolved(e, p) /\ UNCHANGED aggVars
    \/ \E e \in Episodes : StopRejected(e) /\ UNCHANGED aggVars

Spec == Init /\ [][Next]_vars

\* The lifecycle under the scheduling the platform gives: a pending start or
\* stop settles, and a timer that was set fires.
StartSettles(e) == (StartResolved(e) \/ StartRejected(e)) /\ UNCHANGED aggVars

StopSettles(e) == ((\E p \in SessionProfiles : StopResolved(e, p)) \/ StopRejected(e)) /\ UNCHANGED aggVars

FairSpec ==
    /\ Spec
    /\ \A e \in Episodes :
        /\ WF_vars(StartSettles(e))
        /\ WF_vars(StopSettles(e))
        /\ WF_vars(ShortcutFires(e) /\ UNCHANGED aggVars)
        /\ WF_vars(TimerFires(e) /\ UNCHANGED aggVars)

\* ------------------------------------------ the reporting continuation
\* One episode whose session.stop() is pending, followed through
\* _processCpuProfile and the continuation of getExtension.
ReportProfiles == {p \in Profiles : Len(p.ids) <= 2} \cup ScenarioProfiles

ReportInit ==
    /\ session = {<<"t1", 1>>}
    /\ nextEp = 2
    /\ epTarget = [e \in Episodes |-> "t1"]
    /\ pc = [e \in Episodes |-> IF e = 1 THEN "stopping" ELSE "none"]
    /\ cancelled = [e \in Episodes |-> FALSE]
    /\ shortcut = [e \in Episodes |-> FALSE]
    /\ timer = [e \in Episodes |-> IF e = 1 THEN "fired" ELSE "unset"]
    /\ resolvedBy = [e \in Episodes |-> IF e = 1 THEN "timeout" ELSE "none"]
    /\ startCalls = [t \in Targets |-> IF t = "t1" THEN 1 ELSE 0]
    /\ stopCalls = [e \in Episodes |-> IF e = 1 THEN 1 ELSE 0]
    /\ errorReports = [e \in Episodes |-> 0]
    /\ summary = [e \in Episodes |-> NoResult]
    /\ report = [e \in Episodes |-> "none"]
    /\ prompted = [e \in Episodes |-> 0]
    /\ emitted = [e \in Episodes |-> << >>]
    /\ logged = [e \in Episodes |-> 0]
    /\ lastOp = Op("timer", "t1", 1, {"stop"})
    /\ profile = [ids |-> << >>, deltas |-> << >>, startTime |-> 0, endTime |-> 0]
    /\ result = NoResult

ReportNext ==
    \/ \E e \in Episodes, p \in ReportProfiles : StopResolved(e, p) /\ UNCHANGED aggVars
    \/ \E e \in Episodes : StopRejected(e) /\ UNCHANGED aggVars
    \/ \E e \in Episodes, found \in BOOLEAN : ExtensionResolved(e, found) /\ UNCHANGED aggVars
    \/ \E e \in Episodes : WriteResolved(e) /\ UNCHANGED aggVars
    \/ \E e \in Episodes : WriteRejected(e) /\ UNCHANGED aggVars

ReportSpec == ReportInit /\ [][ReportNext]_vars

\* ------------------------------------------------------ aggregation
\* _processCpuProfile as a function of the profile alone.
AggInit ==
    /\ LifecycleInit
    /\ profile \in Profiles \cup ScenarioProfiles \cup RoundingProfiles
    /\ result = NoResult

ProcessProfile ==
    /\ result = NoResult
    /\ result' = processCpuProfile(profile)
    /\ lastOp' = Op("processCpuProfile", "t1", 0, {})
    /\ UNCHANGED <<profile, session, nextEp, epTarget, pc, cancelled, shortcut, timer,
                   resolvedBy, startCalls, stopCalls, errorReports, summary, report,
                   prompted, emitted, logged>>

AggNext == ProcessProfile

AggSpec == AggInit /\ [][AggNext]_vars

\* ================================================================ claims
InFlight == {"starting", "waiting", "stopping"}
Live == {"waiting", "stopping"}
Ended == {"startFailed", "stopFailed", "processed"}

EpisodesOf(t, states) == {e \in Episodes : epTarget[e] = t /\ pc[e] \in states}

\* The step is a delivery of the event lastOp' describes.
IsEvent == lastOp'.op = "event"

\* C1: at every instant and for every target, the table holds at most one
\* entry, that entry is the token of the one handler run in flight for the
\* target, at most one session is live, and every call of
\* startExtensionHostProfile but the one in flight belongs to a run that
\* ended: unresponsive events delivered back-to-back start one session only.
C1_AtMostOneSession ==
    \A t \in Targets :
        /\ Cardinality({p \in session : p[1] = t}) <= 1
        /\ {p[2] : p \in {q \in session : q[1] = t}} = EpisodesOf(t, InFlight)
        /\ Cardinality(EpisodesOf(t, Live)) <= 1
        /\ startCalls[t] = Cardinality(EpisodesOf(t, InFlight \cup Ended))
        /\ startCalls[t] - Cardinality(EpisodesOf(t, Ended)) <= 1

\* An unresponsive event for a profilable target was delivered while the
\* first start was still pending, and start was called once.
C1_Witness ==
    /\ lastOp.op = "event" /\ ~lastOp.resp /\ lastOp.can /\ lastOp.calls = {}
    /\ startCalls[lastOp.target] = 1
    /\ EpisodesOf(lastOp.target, {"starting"}) # {}

\* C2: a responsive event delivered while the target's handler is in its wait
\* and its token is not yet cancelled resolves the wait and calls stop() in
\* the same run, with the 5e3 timer still pending; and the 5e3 timer never
\* resolves the wait of a token that was cancelled.
C2_CancelShortCircuits ==
    [][/\ \A e \in Episodes :
            (IsEvent /\ lastOp'.resp /\ lastOp'.can /\ has(epTarget[e]) /\ get(epTarget[e]) = e
                /\ lastOp'.target = epTarget[e] /\ pc[e] = "waiting" /\ ~cancelled[e])
            => /\ timer[e] = "armed" /\ timer'[e] = "armed"
               /\ pc'[e] = "stopping"
               /\ resolvedBy'[e] = "cancel"
               /\ stopCalls'[e] = stopCalls[e] + 1
               /\ "stop" \in lastOp'.calls
       /\ \A e \in Episodes :
            (resolvedBy[e] = "none" /\ resolvedBy'[e] = "timeout") => ~cancelled[e]
      ]_vars

C2_Witness ==
    \E e \in Episodes :
        /\ lastOp.op = "event" /\ lastOp.resp /\ lastOp.ep = e
        /\ "stop" \in lastOp.calls
        /\ pc[e] = "stopping" /\ resolvedBy[e] = "cancel" /\ timer[e] = "armed"

\* C3: every handler run that registered an entry ends, and when it has ended
\* (start failed, stop succeeded or stop failed) its entry is gone; the target
\* then has no entry unless a later run registered one, so that the start
\* branch is open to the next unresponsive event.
C3_EntryRemoved ==
    /\ \A e \in Episodes :
        [](pc[e] \in InFlight => <>(pc[e] \in Ended /\ <<epTarget[e], e>> \notin session))
    /\ [](\A e \in Episodes :
            pc[e] \in Ended =>
                /\ <<epTarget[e], e>> \notin session
                /\ (EpisodesOf(epTarget[e], InFlight) = {} => StartBranch(epTarget[e], FALSE)))

\* The first run of a target failed to stop, its entry was removed, and a
\* second run of the same target registered its own entry and is in its wait.
C3_Witness ==
    \E e1, e2 \in Episodes :
        /\ e1 < e2 /\ epTarget[e1] = epTarget[e2]
        /\ pc[e1] = "stopFailed" /\ pc[e2] = "waiting"
        /\ session = {<<epTarget[e2], e2>>}

\* C4: an event for a target that cannot be profiled, a responsive event for a
\* target without an entry and an unresponsive event for a target with an
\* entry change nothing and call no collaborator.
C4_NoOpPaths ==
    [][(IsEvent /\ (\/ ~lastOp'.can
                    \/ (lastOp'.resp /\ ~has(lastOp'.target))
                    \/ (~lastOp'.resp /\ has(lastOp'.target))))
        => (UNCHANGED lifecycleVars /\ lastOp'.calls = {})]_vars

\* An event for a target that cannot be profiled was ignored while the target
\* had a session in its wait.
C4_Witness ==
    /\ lastOp.op = "event" /\ ~lastOp.can /\ lastOp.resp /\ lastOp.calls = {}
    /\ EpisodesOf(lastOp.target, {"waiting"}) # {}

\* C5 as claimed: every unresponsive event for a profilable target calls
\* startExtensionHostProfile once.
C5_EveryEventStarts ==
    [][(IsEvent /\ ~lastOp'.resp /\ lastOp'.can)
        => startCalls'[lastOp'.target] = startCalls[lastOp'.target] + 1]_vars

\* C5 as amended: startExtensionHostProfile is called once by an unresponsive
\* event for a profilable target that has no table entry, and by nothing else:
\* not by an unresponsive event that finds an entry, not after a failed start
\* or a failed stop.
C5_OneAttemptPerEpisode ==
    [][IF IsEvent /\ ~lastOp'.resp /\ lastOp'.can /\ ~has(lastOp'.target)
       THEN startCalls' = [startCalls EXCEPT ![lastOp'.target] = @ + 1]
       ELSE startCalls' = startCalls]_vars

\* A start failed, a later start of the same target failed to stop, and the
\* target saw two calls of start, one for each.
C5_Witness ==
    \E e1, e2 \in Episodes :
        /\ epTarget[e1] = epTarget[e2]
        /\ pc[e1] = "startFailed" /\ pc[e2] = "stopFailed"
        /\ startCalls[epTarget[e1]] = 2

\* C6: a run whose start failed has left no entry, reported no error, logged
\* nothing, set no timer, never waited, never called stop() and produced no
\* summary and no report.
C6_BenignStartFailure ==
    \A e \in Episodes :
        pc[e] = "startFailed" =>
            /\ <<epTarget[e], e>> \notin session
            /\ errorReports[e] = 0
            /\ logged[e] = 0
            /\ timer[e] = "unset" /\ ~shortcut[e] /\ resolvedBy[e] = "none"
            /\ stopCalls[e] = 0
            /\ summary[e] = NoResult /\ report[e] = "none"
            /\ prompted[e] = 0 /\ emitted[e] = << >>

C6_Witness ==
    /\ lastOp.op = "startRejected" /\ lastOp.calls = {}
    /\ pc[lastOp.ep] = "startFailed"
    /\ ~has(lastOp.target)

\* C7: a run whose stop() failed reported the error once, produced no summary
\* and no report, and left no entry.
C7_CaptureFailure ==
    \A e \in Episodes :
        pc[e] = "stopFailed" =>
            /\ errorReports[e] = 1
            /\ summary[e] = NoResult /\ report[e] = "none"
            /\ prompted[e] = 0 /\ emitted[e] = << >> /\ logged[e] = 0
            /\ <<epTarget[e], e>> \notin session

C7_Witness ==
    /\ lastOp.op = "stopRejected" /\ "onUnexpectedError" \in lastOp.calls
    /\ pc[lastOp.ep] = "stopFailed" /\ errorReports[lastOp.ep] = 1
    /\ ~has(lastOp.target)

\* C8: stop() is called at most once for a session, exactly when its wait has
\* resolved, by the cancellation or by the 5e3 timer; a session in its wait
\* gets its stop() call whatever events follow.
C8_BoundedWaitSingleStop ==
    /\ [](\A e \in Episodes :
            /\ stopCalls[e] <= 1
            /\ (stopCalls[e] = 1) = (resolvedBy[e] # "none")
            /\ (stopCalls[e] = 1) = (pc[e] \in {"stopping", "stopFailed", "processed"})
            /\ (resolvedBy[e] = "timeout" => timer[e] = "fired")
            /\ (resolvedBy[e] = "cancel" => cancelled[e])
            /\ (pc[e] = "waiting" => timer[e] = "armed"))
    /\ \A e \in Episodes : (pc[e] = "waiting") ~> (stopCalls[e] = 1)

\* The timer fired after the cancellation had resolved the wait, a further
\* responsive event was delivered, and stop() was called once.
C8_Witness ==
    \E e \in Episodes :
        /\ resolvedBy[e] = "cancel" /\ timer[e] = "fired" /\ stopCalls[e] = 1
        /\ pc[e] = "stopping"
        /\ lastOp.op = "event" /\ lastOp.resp /\ lastOp.ep = e /\ lastOp.calls = {"cancel"}

\* ------------------------------------------------- aggregation claims
Range(f) == {f[i] : i \in DOMAIN f}

RECURSIVE SumDeltas(_, _, _)
SumDeltas(p, id, i) ==
    IF i = 0 THEN 0
    ELSE SumDeltas(p, id, i - 1) + (IF p.ids[i] = id THEN p.deltas[i] ELSE 0)

\* The sum of all deltas of profile p carrying id.
TotalOf(p, id) == SumDeltas(p, id, Len(p.ids))

\* The profiles holding the samples of p in another order.
Reorderings(p) ==
    LET n == Len(p.ids)
    IN  {[p EXCEPT !.ids = [i \in 1..n |-> p.ids[f[i]]], !.deltas = [i \in 1..n |-> p.deltas[f[i]]]] :
            f \in {g \in [1..n -> 1..n] : \A i, j \in 1..n : g[i] = g[j] => i = j}}

\* The top slice of a result, or the string "none".
TopSlice(r) == IF r.top = 0 THEN [id |-> "none"] ELSE r.data[r.top]

PromptOf(r) == r.top # 0 /\ Prompt(r)

\* C9: the slices of a processed profile hold every distinct id once, in
\* ascending order of localeCompare, each with the sum of the deltas carrying
\* its id, and slices, top and prompt are the same for every order of the
\* samples.
C9_MergeOrderIndependent ==
    result # NoResult =>
        LET data == result.data
        IN  /\ Len(data) = Cardinality(Range(profile.ids))
            /\ {data[i].id : i \in DOMAIN data} = Range(profile.ids)
            /\ \A i, j \in DOMAIN data : i < j => localeCompare(data[i].id, data[j].id) <= 0
            /\ \A i \in DOMAIN data : data[i].total = TotalOf(profile, data[i].id)
            /\ \A q \in Reorderings(profile) :
                LET r == processCpuProfile(q)
                IN  /\ r.data = data
                    /\ TopSlice(r) = TopSlice(result)
                    /\ PromptOf(r) = PromptOf(result)

\* C9 on the identifiers no two of which are canonically equivalent: there the
\* merge holds every distinct id once with the sum of its deltas, whatever the
\* order of the samples.
C9_MergeOfDistinctKeys ==
    (result # NoResult /\ ~(IdNFC \in Range(profile.ids) /\ IdNFD \in Range(profile.ids)))
        => C9_MergeOrderIndependent

\* Samples with a repeated id between others were merged.
C9_Witness ==
    /\ result # NoResult
    /\ Len(profile.ids) = 3 /\ profile.ids[1] = profile.ids[3] /\ profile.ids[1] # profile.ids[2]
    /\ Len(result.data) = 2

\* a = b on the values of a percentage: false whenever one side is NaN.
SamePercentage(a, b) == a.kind # "nan" /\ a = b

\* C10: the top is a merged slice no other merged slice has a greater
\* percentage than, and no slice before it in the merged list has the same
\* percentage: among the slices sharing the maximum it is the first. A profile
\* without samples has no top.
C10_TieBreak ==
    result # NoResult =>
        LET data == result.data
            k == result.top
        IN  IF data = << >> THEN k = 0
            ELSE /\ k \in DOMAIN data
                 /\ \A j \in DOMAIN data : ~Lt(data[k].percentage, data[j].percentage)
                 /\ \A j \in DOMAIN data : j < k => ~SamePercentage(data[j].percentage, data[k].percentage)

\* Two slices share the maximum percentage, a slice of a smaller percentage
\* comes before them, and the top is the first of the two.
C10_Witness ==
    /\ result # NoResult
    /\ Len(result.data) = 3
    /\ result.top = 2
    /\ result.data[2].percentage = result.data[3].percentage
    /\ result.data[2].percentage.kind = "num"
    /\ Lt(result.data[1].percentage, result.data[2].percentage)

\* ---------------------------------------------------- reporting claims
\* The reports of which the extension was found.
Found == {"writing", "reported", "writeFailed"}

\* The top slice of the summary of episode e.
TopOf(e) == summary[e].data[summary[e].top]

\* top.percentage >= 99 && top.total >= 5e6 on the summary of episode e; an
\* infinite percentage is greater than 99, NaN is not.
Warranted(e) ==
    /\ \/ TopOf(e).percentage = PosInf
       \/ (TopOf(e).percentage.kind = "num" /\ TopOf(e).percentage.v >= PromptPercentage)
    /\ TopOf(e).total >= PromptTotal

\* C11: for every summary whose top slice resolved to an extension, the prompt
\* was raised, once, if and only if the top's percentage is at least 99 and
\* its total at least 5,000,000, and the prompt field of every
\* 'exthostunresponsive' event sent for it is true under that very condition.
C11_PromptThreshold ==
    \A e \in Episodes :
        report[e] \in Found =>
            /\ prompted[e] = (IF Warranted(e) THEN 1 ELSE 0)
            /\ \A i \in DOMAIN emitted[e] : emitted[e][i] = Warranted(e)

\* A top of exactly 99 percent and a total of 9,900,000 was prompted and its
\* event sent with prompt = true.
C11_Witness ==
    \E e \in Episodes :
        /\ report[e] = "reported"
        /\ TopOf(e).percentage = Num(99) /\ TopOf(e).total = 9900000
        /\ prompted[e] = 1 /\ emitted[e] = <<TRUE>>

\* C12 as claimed: a profile with samples whose endTime - startTime is zero or
\* negative gives no summary to report: getExtension is not called, nothing is
\* prompted, written, logged or sent, and no error is reported.
C12_DegenerateDuration ==
    \A e \in Episodes :
        (pc[e] = "processed" /\ summary[e].data # << >> /\ summary[e].duration <= 0)
            => /\ report[e] = "nothing"
               /\ prompted[e] = 0 /\ emitted[e] = << >> /\ logged[e] = 0
               /\ errorReports[e] = 0

\* C13: a profile without samples has no top slice: getExtension is not
\* called, nothing is prompted, written, logged or sent, no error is reported,
\* and the entry of the target is removed.
C13_EmptyProfile ==
    \A e \in Episodes :
        (pc[e] = "processed" /\ summary[e].data = << >>)
            => /\ summary[e].top = 0
               /\ report[e] = "nothing"
               /\ prompted[e] = 0 /\ emitted[e] = << >> /\ logged[e] = 0
               /\ errorReports[e] = 0
               /\ <<epTarget[e], e>> \notin session
               /\ (lastOp.ep = e => lastOp.calls = {"processCpuProfile"})

C13_Witness ==
    /\ lastOp.op = "stopResolved"
    /\ pc[lastOp.ep] = "processed"
    /\ summary[lastOp.ep].data = << >>
    /\ report[lastOp.ep] = "nothing"
    /\ ~has(lastOp.target)

\* C14 as claimed: once getExtension found the extension of the top slice, the
\* 'exthostunresponsive' event is sent exactly once, whether writeFile
\* succeeded or failed.
C14_EventAlwaysEmitted ==
    \A e \in Episodes :
        report[e] \in {"reported", "writeFailed"} => Len(emitted[e]) = 1

\* C15: when getExtension finds nothing, nothing is prompted, written, logged
\* or sent and no error is reported.
C15_ResolutionMiss ==
    \A e \in Episodes :
        report[e] = "dropped" =>
            /\ prompted[e] = 0 /\ emitted[e] = << >> /\ logged[e] = 0
            /\ errorReports[e] = 0
            /\ (lastOp.ep = e => (lastOp.op = "extensionResolved" /\ lastOp.calls = {}))

\* The extension of a top slice that warranted the prompt was not found.
C15_Witness ==
    \E e \in Episodes :
        /\ report[e] = "dropped"
        /\ Warranted(e)
        /\ lastOp.op = "extensionResolved" /\ lastOp.ep = e

\* ---------------------------------------------------- lifecycle claims
\* The steps that run the cleanup of a handler run: the catch block of a failed
\* start and the finally block after stop().
Cleanups == {"startRejected", "stopResolved", "stopRejected"}

\* C16: a responsive event for a target with an entry cancels the token of
\* that entry and leaves the table as it is; an entry leaves the table only in
\* the cleanup of its own run; and an unresponsive event delivered while the
\* entry is still there, cancelled or not, starts nothing.
C16_CancelKeepsEntry ==
    [][/\ (IsEvent /\ lastOp'.can /\ lastOp'.resp /\ has(lastOp'.target))
            => /\ session' = session
               /\ \E p \in session : p[1] = lastOp'.target /\ cancelled'[p[2]]
               /\ "cancel" \in lastOp'.calls
       /\ \A p \in session \ session' : lastOp'.op \in Cleanups /\ lastOp'.ep = p[2]
       /\ (IsEvent /\ ~lastOp'.resp /\ has(lastOp'.target))
            => /\ session' = session /\ startCalls' = startCalls /\ nextEp' = nextEp
               /\ lastOp'.calls = {}
      ]_vars

\* An unresponsive event for a profilable target was ignored while the run
\* holding the target's entry was cancelled and waiting for stop() to return.
C16_Witness ==
    \E e \in Episodes :
        /\ lastOp.op = "event" /\ ~lastOp.resp /\ lastOp.can /\ lastOp.calls = {}
        /\ epTarget[e] = lastOp.target
        /\ <<lastOp.target, e>> \in session
        /\ cancelled[e] /\ pc[e] = "stopping" /\ resolvedBy[e] = "cancel"
        /\ startCalls[lastOp.target] = 1

\* C17 as claimed: with a positive duration the percentage of every slice is
\* 100 * total / duration rounded to the nearest whole number, halves up: the
\* whole number p with p - 1/2 <= 100 * total / duration < p + 1/2; the totals
\* 5,500,000 and 500,000 of 6,000,000 give 92 and 8, and 9,900,000 of
\* 10,000,000 gives 99.
C17_PercentageRounded ==
    (result # NoResult /\ result.duration > 0) =>
        /\ \A i \in DOMAIN result.data :
            LET p == result.data[i].percentage
                rest == 100 * result.data[i].total - p.v * result.duration
            IN  /\ p.kind = "num"
                /\ -result.duration <= 2 * rest
                /\ 2 * rest < result.duration
        /\ (result.duration = 6000000 /\ Len(result.data) = 2)
            => (result.data[1].percentage = Num(92) /\ result.data[2].percentage = Num(8))
        /\ (result.duration = 10000000 /\ Len(result.data) = 1)
            => result.data[1].percentage = Num(99)

\* The state of the runs of target t that exist, the entry of t and the calls
\* of start made for t.
StateOf(t) ==
    <<{p \in session : p[1] = t},
      startCalls[t],
      {<<e, pc[e], cancelled[e], shortcut[e], timer[e], resolvedBy[e], stopCalls[e],
         errorReports[e], summary[e]>> : e \in {x \in Episodes : epTarget[x] = t /\ pc[x] # "none"}}>>

\* C18: a step taken for one target (an event, or the settling of the start,
\* a timer or the stop of one of its runs) leaves the entry, the tokens and the
\* runs of every other target as they are; in particular a cancellation for
\* one target resolves no wait of another.
C18_TargetIndependence ==
    [][\A t \in Targets : t # lastOp'.target => StateOf(t)' = StateOf(t)]_vars

\* Both targets had a session in its wait, and a responsive event for one of
\* them resolved its wait and left the other waiting, not cancelled.
C18_Witness ==
    \E e1, e2 \in Episodes :
        /\ epTarget[e1] # epTarget[e2]
        /\ lastOp.op = "event" /\ lastOp.resp /\ lastOp.ep = e1 /\ "stop" \in lastOp.calls
        /\ pc[e1] = "stopping" /\ cancelled[e1]
        /\ pc[e2] = "waiting" /\ ~cancelled[e2] /\ resolvedBy[e2] = "none"
        /\ session = {<<epTarget[e1], e1>>, <<epTarget[e2], e2>>}

\* C19: a token cancelled while the start was pending is found cancelled when
\* the handler enters its wait: the callback of the cancellation is pending
\* together with the 5e3 timer, only that callback ends the wait, calling
\* stop() with the timer still pending, and it does so whenever the start
\* succeeds.
C19_EarlyCancelNotLost ==
    /\ [](\A e \in Episodes :
            (pc[e] = "waiting" /\ cancelled[e]) => (shortcut[e] /\ timer[e] = "armed"))
    /\ [][\A e \in Episodes :
            (pc[e] = "waiting" /\ cancelled[e] /\ pc'[e] # "waiting")
                => /\ lastOp'.op = "shortcut" /\ lastOp'.ep = e /\ "stop" \in lastOp'.calls
                   /\ pc'[e] = "stopping"
                   /\ resolvedBy'[e] = "cancel"
                   /\ stopCalls'[e] = stopCalls[e] + 1
                   /\ timer'[e] = "armed"]_vars
    /\ \A e \in Episodes :
            (pc[e] = "starting" /\ cancelled[e])
                ~> (pc[e] = "startFailed" \/ (resolvedBy[e] = "cancel" /\ stopCalls[e] = 1))

\* The wait of a run cancelled before its start succeeded was resolved by the
\* pending callback of the cancellation, with the 5e3 timer still pending.
C19_Witness ==
    \E e \in Episodes :
        /\ lastOp.op = "shortcut" /\ lastOp.ep = e /\ "stop" \in lastOp.calls
        /\ pc[e] = "stopping" /\ resolvedBy[e] = "cancel" /\ stopCalls[e] = 1
        /\ timer[e] = "armed"

\* C20: a 5e3 timer that was set stays set until it fires, and when the timer
\* of a run whose wait the cancellation resolved fires, no wait is resolved,
\* stop() is not called and the table is as before: only the timer is spent.
C20_StaleTimer ==
    [][/\ \A e \in Episodes : timer[e] = "armed" => timer'[e] \in {"armed", "fired"}
       /\ \A e \in Episodes :
            (timer[e] = "armed" /\ timer'[e] = "fired" /\ resolvedBy[e] = "cancel")
                => /\ lastOp'.op = "timer" /\ lastOp'.ep = e /\ lastOp'.calls = {}
                   /\ UNCHANGED <<session, pc, resolvedBy, stopCalls, cancelled, startCalls>>
      ]_vars

\* The timer of a run that was cancelled and has ended fired while a later
\* run of the same target was in its wait, which it still is.
C20_Witness ==
    \E e1, e2 \in Episodes :
        /\ e1 # e2 /\ epTarget[e1] = epTarget[e2]
        /\ lastOp.op = "timer" /\ lastOp.ep = e1 /\ lastOp.calls = {}
        /\ resolvedBy[e1] = "cancel" /\ pc[e1] \in Ended /\ timer[e1] = "fired"
        /\ pc[e2] = "waiting" /\ resolvedBy[e2] = "none" /\ timer[e2] = "armed"
        /\ session = {<<epTarget[e2], e2>>}

====
